---------------------------- MODULE Spec2Model ----------------------------
(***************************************************************************)
(* Model of the in-browser property ledger of src/js/app.js: the global    *)
(* `blockchain` array, the asynchronous addBlock and validateChain calls    *)
(* (which suspend while crypto.subtle.digest runs and let other events in), *)
(* the click handlers, the statistics display and the JSON export/import.  *)
(*                                                                         *)
(* Representation.  A block is a TLA+ record whose DOMAIN is the set of    *)
(* properties the JavaScript object carries with a defined value (a        *)
(* property that is absent and one whose value is `undefined` behave alike *)
(* in every read the program makes).  All property values are strings.      *)
(* SHA-256 is modelled as an ideal (collision-free) digest: the digest of  *)
(* a message is the string "sha256(<message>)".                            *)
(***************************************************************************)
EXTENDS Integers, Sequences, FiniteSets, Bags, TLC

\* ------------------------------------------------------------------ bounds

\* Longest chain built by appends (pushed blocks plus appends in flight).
MaxChain == 2
\* Latest instant (in ms after the base instant) the clock reaches.
MaxClock == 1
\* addBlock calls in flight at once.
MaxAdds == 2
\* validateChain calls in flight at once.
MaxScans == 1
\* Ledger files loaded in one run.
MaxImports == 1

\* ------------------------------------------------------------ input values

\* Values of the form fields after .trim() ("" is an empty field).
PropertyIDs == {"", "P1", "P2"}
Owners == {"Alice"}
NewOwners == {"Bob"}
Descriptions == {""}
Remarks == {""}
Secrets == {"", "s1", "s2"}

\* ------------------------------------------------------- strings and JSON

\* A JSON null array element (the only JSON value whose property reads throw).
JsonNull == [null |-> "null"]

IsNull(block) == block = JsonNull

\* `${record[k]}` in a template literal: an undefined value prints "undefined".
Interpolate(record, k) == IF k \in DOMAIN record THEN record[k] ELSE "undefined"

\* record[k] || '' : a missing or empty value defaults to the empty string.
OrEmpty(record, k) == IF k \in DOMAIN record THEN record[k] ELSE ""

\* a === b for two property reads, each a string or undefined.
StrictEq(r1, k1, r2, k2) ==
  /\ (k1 \in DOMAIN r1) <=> (k2 \in DOMAIN r2)
  /\ (k1 \in DOMAIN r1) => r1[k1] = r2[k2]

\* record[k] === value, for a string value.
Holds(record, k, value) == k \in DOMAIN record /\ record[k] = value

RECURSIVE JoinComma(_)
JoinComma(parts) ==
  IF parts = <<>> THEN ""
  ELSE IF Len(parts) = 1 THEN parts[1]
  ELSE parts[1] \o "," \o JoinComma(Tail(parts))

\* JSON.stringify of an object whose properties, in insertion order, are
\* `keys`; a property whose value is undefined is left out.  The values of
\* this model hold no character that JSON escapes.
JSONstringify(obj, keys) ==
  LET present == SelectSeq(keys, LAMBDA k : k \in DOMAIN obj)
      member(k) == "\"" \o k \o "\":\"" \o obj[k] \o "\""
  IN  "{" \o JoinComma([i \in 1..Len(present) |-> member(present[i])]) \o "}"

\* new Date().toISOString() at `t` ms after the base instant (t < 10).
toISOString(t) == "2025-01-01T00:00:00.00" \o ToString(t) \o "Z"

\* ---------------------------------------------------------------- digests

sha256(message) == "sha256(" \o message \o ")"

HashKeys ==
  <<"propertyID", "owner", "description", "remarks", "action", "timestamp",
    "previousHash">>

\* dataForHash with the owner left out.
dataForHashNoOwner(record) ==
  LET defaulted == [description |-> OrEmpty(record, "description"),
                    remarks |-> OrEmpty(record, "remarks")]
      copied == {"propertyID", "action", "timestamp", "previousHash"}
                  \cap DOMAIN record
  IN  [k \in copied \cup {"description", "remarks"} |->
         IF k \in copied THEN record[k] ELSE defaulted[k]]

\* The object literal of calculateHash: description and remarks defaulted.
dataForHash(record) ==
  LET defaulted == [description |-> OrEmpty(record, "description"),
                    remarks |-> OrEmpty(record, "remarks")]
      copied == {"propertyID", "owner", "action", "timestamp", "previousHash"}
                  \cap DOMAIN record
  IN  [k \in copied \cup {"description", "remarks"} |->
         IF k \in copied THEN record[k] ELSE defaulted[k]]

calculateHash(record) == sha256(JSONstringify(dataForHash(record), HashKeys))

\* signRecord with the secret left out of the signed string.
signRecordNoSecret(record, userSecret) ==
  sha256(Interpolate(record, "propertyID") \o "|" \o Interpolate(record, "owner")
         \o "|" \o Interpolate(record, "action") \o "|"
         \o Interpolate(record, "timestamp") \o "|")

signRecord(record, userSecret) ==
  sha256(Interpolate(record, "propertyID") \o "|" \o Interpolate(record, "owner")
         \o "|" \o Interpolate(record, "action") \o "|"
         \o Interpolate(record, "timestamp") \o "|" \o userSecret)


\* ------------------------------------------------------------------ state

VARIABLES
  blockchain,        \* the global array `blockchain`
  clock,             \* the instant new Date() reads, in ms after the base instant
                     \* (the instant of the first addBlock call)
  calls,             \* bag of the suspended addBlock and validateChain calls
  stats,             \* the three numbers shown in the statistics panel
  loadReport,        \* the text reader.onload got in the latest step and what it
                     \* told the user (an alert, or the #validationResult message)
  returned,          \* the result the validateChain call that ended in the latest
                     \* step gave its handler, which shows it in #validationResult
  reading,           \* FileReader reads started whose onload has not run yet
  imports,           \* ledger files chosen so far
  authors            \* history, no state of the program: for each block of the
                     \* chain, the secret addBlock was called with (Unknown for a
                     \* block that came from a file)

vars ==
  <<blockchain, clock, calls, stats, loadReport, returned, reading, imports,
    authors>>

NoAlert == ""
NoReport == [said |-> "none"]
Unknown == "?"
NoReturn == [op |-> "none"]

AlertNeedSecret == "Please enter your Owner Secret (private key) first."
AlertAlreadyRegistered == "Property ID already registered!"
AlertRegistered == "Property registered and signed successfully!"
AlertNeedRegisterFields == "Please enter Property ID and Owner Name."
AlertNotFound == "Property ID not found! Register it first."
AlertTransferred == "Property ownership transferred and signed!"
AlertNeedTransferFields == "Please enter Property ID and new Owner Name."
AlertNeedValidateSecret ==
  "Enter the Owner Secret you used to create the blocks, to verify signatures."
AlertNeedTimelineID == "Please enter a Property ID for timeline search."
AlertLedgerEmpty == "Ledger is empty. Add some data first."
AlertNotArray == "Invalid file format: expected an array."
AlertReadError == "Error reading ledger file: "

ResultEmpty == "Chain is empty (nothing to validate)."
ResultValid == "Chain is valid. All hashes and signatures match."
ResultHashMismatch(n) == "Invalid: hash mismatch at block " \o ToString(n) \o "."
ResultBrokenLink(n) ==
  "Invalid: broken link between block " \o ToString(n - 1) \o " and "
    \o ToString(n) \o "."
ResultSignatureInvalid(n) ==
  "Warning: signature invalid at block " \o ToString(n)
    \o " (wrong secret or tampering)."
ResultLoaded == "Ledger loaded from file. You can now validate the chain."
\* The call threw a TypeError: its promise is rejected and nothing is shown.
Thrown == "TypeError"

AddCalls == {c \in BagToSet(calls) : c.op = "addBlock"}
ScanCalls == {c \in BagToSet(calls) : c.op = "validateChain"}
InFlight(cs) == BagCardinality([c \in cs |-> calls[c]])

HasNull(chain) == \E i \in 1..Len(chain) : IsNull(chain[i])

\* ----------------------------------------------------------- statistics

\* Number of distinct values of property k over `blocks` (undefined is one value).
DistinctValues(blocks, k) ==
  Cardinality({b[k] : b \in {x \in blocks : k \in DOMAIN x}})
    + (IF \E b \in blocks : k \notin DOMAIN b THEN 1 ELSE 0)

\* What updateStats writes, for a chain it can walk (no null element).
updateStats(chain) ==
  LET blocks == {chain[i] : i \in 1..Len(chain)}
      registers == {b \in blocks : Holds(b, "action", "Register")}
      transfers == {i \in 1..Len(chain) : Holds(chain[i], "action", "Transfer")}
  IN  [properties |-> DistinctValues(registers, "propertyID"),
       transfers |-> Cardinality(transfers),
       owners |-> DistinctValues(blocks, "owner")]

\* renderLedger(); updateStats(): renderLedger throws at a null element, and
\* then updateStats is not reached.
Redraw(chain) == IF HasNull(chain) THEN stats ELSE updateStats(chain)

Init ==
  /\ blockchain = <<>>
  /\ clock = 0
  /\ calls = EmptyBag
  /\ stats = updateStats(<<>>)
  /\ loadReport = NoReport
  /\ returned = NoReturn
  /\ reading = 0
  /\ imports = 0
  /\ authors = <<>>

\* The clock advances (time is counted from the first addBlock call).
Tick ==
  /\ clock < MaxClock
  /\ blockchain # <<>> \/ AddCalls # {}
  /\ clock' = clock + 1
  /\ UNCHANGED <<blockchain, calls, stats, loadReport, returned, reading, imports,
                 authors>>

\* ------------------------------------------------- checks of validateChain

\* recomputedHash !== current.currentHash (line 132).
HashFails(current) == ~Holds(current, "currentHash", calculateHash(current))

\* The link check left out.
LinkUnchecked(current, previous) == FALSE

\* current.previousHash !== previous.currentHash (line 138).
LinkFails(current, previous) ==
  ~StrictEq(current, "previousHash", previous, "currentHash")

\* expectedSignature !== current.signature (line 144).
SignatureFails(current, globalSecret) ==
  ~Holds(current, "signature", signRecord(current, globalSecret))

\* What validateChain(globalSecret) gives on `chain` when nothing changes
\* the chain during the scan (lines 123-150): it stops at the first position
\* that is null (calculateHash throws) or fails a check.
ValidationOf(chain, globalSecret) ==
  LET stops == {i \in 1..Len(chain) :
                  \/ IsNull(chain[i])
                  \/ HashFails(chain[i])
                  \/ i > 1 /\ LinkFails(chain[i], chain[i - 1])
                  \/ SignatureFails(chain[i], globalSecret)}
      i == CHOOSE n \in stops : \A m \in stops : n <= m
  IN  IF chain = <<>> THEN ResultEmpty
      ELSE IF stops = {} THEN ResultValid
      ELSE IF IsNull(chain[i]) THEN Thrown
      ELSE IF HashFails(chain[i]) THEN ResultHashMismatch(i)
      ELSE IF i > 1 /\ LinkFails(chain[i], chain[i - 1]) THEN ResultBrokenLink(i)
      ELSE ResultSignatureInvalid(i)

\* --------------------------------------------------------------- addBlock

\* blockchain.find(test) in the click handlers, where test reads properties
\* of each block and `matches` holds the positions of the blocks that pass it:
\* "found" at a match, "throw" at a null element met before any match.
Find(chain, matches) ==
  LET nulls == {i \in 1..Len(chain) : IsNull(chain[i])}
  IN  IF \E m \in matches : \A i \in nulls : m < i THEN "found"
      ELSE IF nulls # {} THEN "throw"
      ELSE "none"

\* Lines 46-49 up to the first suspension: the tail is read, the link and
\* the timestamp are set, and the signature digest is started.
addBlockStart(record, userSecret) ==
  LET n == Len(blockchain)
      linked == IF n = 0 \/ IsNull(blockchain[n])
                THEN ("previousHash" :> "0") @@ record
                ELSE IF "currentHash" \in DOMAIN blockchain[n]
                THEN ("previousHash" :> blockchain[n].currentHash) @@ record
                ELSE record
      stamped == ("timestamp" :> toISOString(clock)) @@ linked
  IN  [op |-> "addBlock", pc |-> "sign", record |-> stamped,
       userSecret |-> userSecret]

\* Room for one more append within the bounds of the model.
AddRoom ==
  /\ InFlight(AddCalls) < MaxAdds
  /\ Len(blockchain) + InFlight(AddCalls) < MaxChain

\* A handler that ends in alert(msg) and changes nothing else.  The alerts of
\* the click handlers are shown and forgotten: they are no state.
Quiet(msg) ==
  /\ loadReport' = NoReport
  /\ returned' = NoReturn
  /\ UNCHANGED <<blockchain, clock, calls, stats, reading, imports, authors>>

StartAdd(record, userSecret) ==
  /\ AddRoom
  /\ calls' = calls (+) SetToBag({addBlockStart(record, userSecret)})
  /\ loadReport' = NoReport
  /\ returned' = NoReturn
  /\ UNCHANGED <<blockchain, clock, stats, reading, imports, authors>>

\* #registerProperty click.
RegisterClick(propertyID, description, owner, userSecret) ==
  LET test(block) == Holds(block, "propertyID", propertyID)
                       /\ Holds(block, "action", "Register")
      alreadyExists ==
        Find(blockchain, {i \in 1..Len(blockchain) : test(blockchain[i])})
  IN  IF userSecret = "" THEN Quiet(AlertNeedSecret)
      ELSE IF alreadyExists = "throw" THEN Quiet(NoAlert)
      ELSE IF alreadyExists = "found" THEN Quiet(AlertAlreadyRegistered)
      ELSE IF propertyID # "" /\ owner # ""
      THEN StartAdd([propertyID |-> propertyID, description |-> description,
                     owner |-> owner, action |-> "Register"], userSecret)
      ELSE Quiet(AlertNeedRegisterFields)

\* #transferProperty click without the lookup of the property.
TransferClickUnchecked(propertyID, newOwner, remarks, userSecret) ==
  IF userSecret = "" THEN Quiet(AlertNeedSecret)
  ELSE IF propertyID # "" /\ newOwner # ""
  THEN StartAdd([propertyID |-> propertyID, owner |-> newOwner,
                 action |-> "Transfer", remarks |-> remarks], userSecret)
  ELSE Quiet(AlertNeedTransferFields)

\* #transferProperty click.
TransferClick(propertyID, newOwner, remarks, userSecret) ==
  LET test(block) == Holds(block, "propertyID", propertyID)
      found == Find(blockchain, {i \in 1..Len(blockchain) : test(blockchain[i])})
  IN  IF userSecret = "" THEN Quiet(AlertNeedSecret)
      ELSE IF propertyID # "" /\ newOwner # ""
      THEN IF found = "throw" THEN Quiet(NoAlert)
           ELSE IF found = "none" THEN Quiet(AlertNotFound)
           ELSE StartAdd([propertyID |-> propertyID, owner |-> newOwner,
                          action |-> "Transfer", remarks |-> remarks], userSecret)
      ELSE Quiet(AlertNeedTransferFields)

\* The call is dropped when its signature digest is ready: nothing resumes.
AddSignedDropped(c) ==
  /\ c \in AddCalls /\ c.pc = "sign"
  /\ calls' = calls (-) SetToBag({c})
  /\ loadReport' = NoReport
  /\ returned' = NoReturn
  /\ UNCHANGED <<blockchain, clock, stats, reading, imports, authors>>

\* The signature digest of call c is ready (line 49); the hash digest starts.
AddSigned(c) ==
  /\ c \in AddCalls /\ c.pc = "sign"
  /\ LET signed == ("signature" :> signRecord(c.record, c.userSecret)) @@ c.record
     IN  calls' = (calls (-) SetToBag({c}))
                    (+) SetToBag({[c EXCEPT !.pc = "hash", !.record = signed]})
  /\ loadReport' = NoReport
  /\ returned' = NoReturn
  /\ UNCHANGED <<blockchain, clock, stats, reading, imports, authors>>

\* Every scan in flight has seen the chain change (stable and seen are
\* history, no state of the program: whether the chain was left alone since
\* the scan started, and what validating each content the chain has had
\* since the scan started, and has no more, would give).
Disturbed ==
  LET touch(c) == IF c.op = "validateChain"
                 THEN [c EXCEPT !.stable = FALSE,
                            !.seen = @ \cup {ValidationOf(blockchain, c.globalSecret)}]
                 ELSE c
      cs == BagToSet(calls)
  IN  [d \in {touch(c) : c \in cs} |->
         BagCardinality([c \in {x \in cs : touch(x) = d} |-> calls[c]])]

\* The record put at the head of the array instead of its tail.
unshift(chain, record) == <<record>> \o chain

\* blockchain.push(record) (line 51).
push(chain, record) == Append(chain, record)

\* The hash digest of call c is ready (lines 50-53): the block is pushed and
\* the display redrawn; then the handler shows its alert.
AddHashed(c) ==
  /\ c \in AddCalls /\ c.pc = "hash"
  /\ LET block == ("currentHash" :> calculateHash(c.record)) @@ c.record
         chain == push(blockchain, block)
     IN  /\ blockchain' = chain
         /\ stats' = Redraw(chain)
         /\ loadReport' = NoReport
  /\ calls' = Disturbed (-) SetToBag({c})
  /\ returned' = NoReturn
  /\ authors' = Append(authors, c.userSecret)
  /\ UNCHANGED <<clock, reading, imports>>

\* ----------------------------------------------------------- validateChain

\* validateChain returns `result` (the handler shows it), or throws.
Finish(rest, globalSecret, stable, seen, result) ==
  /\ calls' = rest
  /\ returned' = [op |-> "validateChain", globalSecret |-> globalSecret,
                  stable |-> stable, seen |-> seen, result |-> result]

\* The loop of validateChain at index i (lines 128-131), up to its first
\* suspension: the loop test, the read of blockchain[i], and the start of
\* the hash digest, which throws at a null block.
Iterate(rest, i, globalSecret, stable, seen) ==
  IF i >= Len(blockchain)
  THEN Finish(rest, globalSecret, stable, seen, ResultValid)
  ELSE IF IsNull(blockchain[i + 1])
  THEN Finish(rest, globalSecret, stable, seen, Thrown)
  ELSE /\ calls' = rest (+) SetToBag({[op |-> "validateChain", pc |-> "hash",
                                        i |-> i, current |-> blockchain[i + 1],
                                        globalSecret |-> globalSecret,
                                        stable |-> stable, seen |-> seen]})
       /\ returned' = NoReturn

\* #validateChain click.
ValidateClick(userSecret) ==
  IF userSecret = "" THEN Quiet(AlertNeedValidateSecret)
  ELSE /\ IF Len(blockchain) = 0
          THEN Finish(calls, userSecret, TRUE, {}, ResultEmpty)
          ELSE /\ InFlight(ScanCalls) < MaxScans
               /\ Iterate(calls, 0, userSecret, TRUE, {})
       /\ loadReport' = NoReport
       /\ UNCHANGED <<blockchain, clock, stats, reading, imports, authors>>

\* The recomputed hash of scan c is ready (lines 132-143): the hash check,
\* the link check against the chain as it is now, and the start of the
\* signature digest.
ScanHashed(c) ==
  /\ c \in ScanCalls /\ c.pc = "hash"
  /\ LET rest == calls (-) SetToBag({c})
     IN  IF HashFails(c.current)
         THEN Finish(rest, c.globalSecret, c.stable, c.seen, ResultHashMismatch(c.i + 1))
         ELSE IF c.i > 0 /\ (c.i > Len(blockchain) \/ IsNull(blockchain[c.i]))
         THEN Finish(rest, c.globalSecret, c.stable, c.seen, Thrown)
         ELSE IF c.i > 0 /\ LinkFails(c.current, blockchain[c.i])
         THEN Finish(rest, c.globalSecret, c.stable, c.seen,
                     ResultBrokenLink(c.i + 1))
         ELSE /\ calls' = rest (+) SetToBag({[c EXCEPT !.pc = "sign"]})
                     /\ returned' = NoReturn
  /\ loadReport' = NoReport
  /\ UNCHANGED <<blockchain, clock, stats, reading, imports, authors>>

\* The recomputed signature of scan c is ready (lines 144-147, then the
\* next iteration).
ScanSigned(c) ==
  /\ c \in ScanCalls /\ c.pc = "sign"
  /\ LET rest == calls (-) SetToBag({c})
     IN  IF SignatureFails(c.current, c.globalSecret)
         THEN Finish(rest, c.globalSecret, c.stable, c.seen,
                     ResultSignatureInvalid(c.i + 1))
         ELSE Iterate(rest, c.i + 1, c.globalSecret, c.stable, c.seen)
  /\ loadReport' = NoReport
  /\ UNCHANGED <<blockchain, clock, stats, reading, imports, authors>>

\* ---------------------------------------------------------------- timeline

\* formatTime (lines 27-36): day, month, year, hours, minutes and seconds of
\* the instant (the milliseconds are not shown; all instants of the model
\* lie in one second), NaN in every place for a string that is no date.
formatTime(isoString) ==
  IF \E t \in 0..MaxClock : toISOString(t) = isoString
  THEN "01-01-2025 00:00:00"
  ELSE "NaN-NaN-NaN NaN:NaN:NaN"

\* `record.k || 'N/A'` in the list items.
OrNA(record, k) == IF k \in DOMAIN record /\ record[k] # "" THEN record[k] ELSE "N/A"

\* The list item showTimeline appends for a block (lines 85-95).
TimelineItem(block, idx) ==
  [step |-> idx,
   action |-> Interpolate(block, "action"),
   owner |-> Interpolate(block, "owner"),
   description |-> OrNA(block, "description"),
   remarks |-> OrNA(block, "remarks"),
   hash |-> Interpolate(block, "currentHash"),
   time |-> formatTime(Interpolate(block, "timestamp"))]

NoActionsFound == "No actions found for this Property ID."

\* showTimeline (lines 78-98): the items in #propertyTimeline when it ends.
\* The list is emptied first; the filter throws at a null element, and then
\* nothing is appended.
showTimeline(chain, propertyID) ==
  LET timelineBlocks ==
        SelectSeq(chain, LAMBDA block : Holds(block, "propertyID", propertyID))
  IN  IF HasNull(chain) THEN <<>>
      ELSE IF Len(timelineBlocks) = 0 THEN <<NoActionsFound>>
      ELSE [idx \in 1..Len(timelineBlocks) |->
              TimelineItem(timelineBlocks[idx], idx)]

\* #showTimeline click (lines 246-253).
TimelineClick(propertyID) ==
  IF propertyID = "" THEN Quiet(AlertNeedTimelineID)
  ELSE /\ returned' = [op |-> "showTimeline", propertyID |-> propertyID,
                       timeline |-> showTimeline(blockchain, propertyID)]
       /\ loadReport' = NoReport
       /\ UNCHANGED <<blockchain, clock, calls, stats, reading, imports, authors>>

\* ---------------------------------------------------------- export, import

\* A JSON text is modelled by its structure: [json |-> "garbage"] for a text
\* that is not JSON, [json |-> "value"] for a JSON value that is no array,
\* and [json |-> "array", elements |-> e] for an array, where an element is
\* [json |-> "null"] or [json |-> "object", members |-> m] and m is the
\* sequence of the members written, each a pair of the key and the value as
\* written (a string between double quotes).

\* The properties of a block in the order addBlock's callers and addBlock
\* itself create them (lines 209, 236, 47-50).
KeyOrder ==
  <<"propertyID", "description", "owner", "action", "remarks", "previousHash",
    "timestamp", "signature", "currentHash">>

\* A string as JSON.stringify writes it (the strings of the ledger hold no
\* character to escape), and a written string as JSON.parse reads it.
Quote(value) == "\"" \o value \o "\""
Unquote(written) == SubSeq(written, 2, Len(written) - 1)

\* JSON.stringify of one element of the array: null stays null, an object is
\* written with the properties whose value is defined, in their order.
stringifyBlock(block, keys) ==
  IF IsNull(block) THEN [json |-> "null"]
  ELSE [json |-> "object",
        members |-> [i \in 1..Len(keys) |-> <<keys[i], Quote(block[keys[i]])>>]]

\* downloadLedger writing only the properties that hold a non-empty string.
downloadLedgerSparse(chain) ==
  [json |-> "array",
   elements |->
     [i \in 1..Len(chain) |->
        stringifyBlock(chain[i],
          SelectSeq(KeyOrder,
                    LAMBDA k : k \in DOMAIN chain[i] /\ chain[i][k] # ""))]]

\* JSON.stringify(blockchain, null, 2) (line 155): the text of the file that
\* downloadLedger hands to the browser.
downloadLedger(chain) ==
  [json |-> "array",
   elements |->
     [i \in 1..Len(chain) |->
        stringifyBlock(chain[i],
                       SelectSeq(KeyOrder, LAMBDA k : k \in DOMAIN chain[i]))]]

\* JSON.parse of one element of an array text.
parseElement(element) ==
  IF element.json = "null" THEN JsonNull
  ELSE LET m == element.members
           at(k) == CHOOSE i \in 1..Len(m) : m[i][1] = k
       IN  [k \in {m[i][1] : i \in 1..Len(m)} |-> Unquote(m[at(k)][2])]

\* JSON.parse(e.target.result) (line 169) with Array.isArray of its value
\* (line 170): kind is "invalid" when JSON.parse throws, "object" for a value
\* that is no array, "array" (with the items parsed) for an array.
JSONparse(text) ==
  IF text.json = "garbage" THEN [kind |-> "invalid"]
  ELSE IF text.json # "array" THEN [kind |-> "object"]
  ELSE [kind |-> "array",
        items |-> [i \in 1..Len(text.elements) |-> parseElement(text.elements[i])]]

\* #downloadLedger click: an alert on an empty ledger, else the file is handed
\* to the browser; the ledger and the page are left as they are.
DownloadClick ==
  IF Len(blockchain) = 0 THEN Quiet(AlertLedgerEmpty) ELSE Quiet(NoAlert)

\* #uploadLedger change with a file chosen: reader.readAsText(file) starts.
UploadChange ==
  /\ imports < MaxImports
  /\ imports' = imports + 1
  /\ reading' = reading + 1
  /\ loadReport' = NoReport
  /\ returned' = NoReturn
  /\ UNCHANGED <<blockchain, clock, calls, stats, authors>>

Fields ==
  {"propertyID", "owner", "description", "remarks", "action", "timestamp",
   "previousHash", "currentHash", "signature"}

Without(block, f) == [k \in DOMAIN block \ {f} |-> block[k]]

\* A block of a ledger file edited by hand in one property: set to another
\* string, or (description, remarks) emptied or deleted.
Edits(block) ==
  ({(f :> "X") @@ block : f \in Fields}
     \cup {(f :> "") @@ block : f \in {"description", "remarks"}}
     \cup {Without(block, f) : f \in {"description", "remarks"}}) \ {block}

\* A block whose previousHash is replaced and whose currentHash is
\* recomputed over the new content.
Relinked(block) ==
  LET moved == ("previousHash" :> "X") @@ block
  IN  ("currentHash" :> calculateHash(moved)) @@ moved

\* A one-block array written by hand: its hash is consistent, its signature
\* made with a secret of its author's.
Forged ==
  LET record == [propertyID |-> "P1", owner |-> "Mallory", description |-> "",
                 action |-> "Register", timestamp |-> toISOString(0),
                 previousHash |-> "0"]
      signed == ("signature" :> signRecord(record, "m")) @@ record
  IN  <<("currentHash" :> calculateHash(signed)) @@ signed>>

\* The arrays a chosen file may hold: a download of the ledger, of now or of
\* earlier (a prefix), as it is or with one block edited, relinked or replaced
\* by null; and arrays written by hand.
Arrays ==
  LET a == JSONparse(downloadLedger(blockchain)).items
      at == {k \in 1..Len(a) : ~IsNull(a[k])}
  IN  {<<>>, <<JsonNull>>, Forged}
        \cup {SubSeq(a, 1, n) : n \in 1..Len(a)}
        \cup UNION {{[a EXCEPT ![k] = e] : e \in Edits(a[k])} : k \in at}
        \cup {[a EXCEPT ![k] = Relinked(a[k])] : k \in at}
        \cup {[a EXCEPT ![k] = JsonNull] : k \in at}

\* The texts a chosen file may hold: not JSON, a JSON value that is no
\* array, or the text of one of the arrays.
Texts ==
  {[json |-> "garbage"], [json |-> "value"]}
    \cup {downloadLedger(a) : a \in Arrays}

\* What JSON.parse makes of the text of a chosen file.
Files == {JSONparse(text) : text \in Texts}

\* An error path of reader.onload: the alert, and nothing assigned
\* (lines 170-173; a JSON.parse exception caught at lines 178-180).
Reject(text, message) ==
  /\ loadReport' = [text |-> text, said |-> message]
  /\ UNCHANGED <<blockchain, calls, stats, authors>>

\* blockchain = parsed; renderLedger(); updateStats(); the loaded message
\* (lines 174-177). renderLedger throws at a null element, after the
\* assignment: the catch block alerts (lines 178-180).
Install(text, parsed) ==
  /\ blockchain' = parsed
  /\ calls' = Disturbed
  /\ stats' = Redraw(parsed)
  /\ authors' = [i \in 1..Len(parsed) |-> Unknown]
  /\ loadReport' =
       [text |-> text,
        said |-> IF HasNull(parsed) THEN AlertReadError ELSE ResultLoaded]

\* reader.onload without the Array.isArray check: the parsed object is
\* assigned, it has no forEach, and the catch block alerts.
ReaderOnloadUnguarded(text) ==
  /\ reading > 0
  /\ reading' = reading - 1
  /\ returned' = NoReturn
  /\ UNCHANGED <<clock, imports>>
  /\ IF text.kind = "invalid" THEN Reject(text, AlertReadError)
     ELSE IF text.kind # "array"
     THEN /\ blockchain' = <<>>
          /\ calls' = Disturbed
          /\ authors' = <<>>
          /\ loadReport' = [text |-> text, said |-> AlertReadError]
          /\ UNCHANGED stats
     ELSE Install(text, text.items)

\* reader.onload adding the parsed blocks after the blocks in memory.
ReaderOnloadKeeping(text) ==
  /\ reading > 0
  /\ reading' = reading - 1
  /\ returned' = NoReturn
  /\ UNCHANGED <<clock, imports>>
  /\ IF text.kind = "invalid" THEN Reject(text, AlertReadError)
     ELSE IF text.kind # "array" THEN Reject(text, AlertNotArray)
     ELSE Install(text, blockchain \o text.items)

\* reader.onload with the file's text (lines 167-181).
ReaderOnload(text) ==
  /\ reading > 0
  /\ reading' = reading - 1
  /\ returned' = NoReturn
  /\ UNCHANGED <<clock, imports>>
  /\ IF text.kind = "invalid" THEN Reject(text, AlertReadError)
     ELSE IF text.kind # "array" THEN Reject(text, AlertNotArray)
     ELSE Install(text, text.items)

\* ------------------------------------------------------------------- specs

Register ==
  \E propertyID \in PropertyIDs, description \in Descriptions,
     owner \in Owners, userSecret \in Secrets :
    RegisterClick(propertyID, description, owner, userSecret)

Transfer ==
  \E propertyID \in PropertyIDs, newOwner \in NewOwners, remarks \in Remarks,
     userSecret \in Secrets :
    TransferClick(propertyID, newOwner, remarks, userSecret)

Validate == \E userSecret \in Secrets : ValidateClick(userSecret)

\* A pending crypto.subtle.digest promise resolves and its call resumes.
AddDigestDone == \E c \in AddCalls : AddSigned(c) \/ AddHashed(c)

ScanDigestDone == \E c \in ScanCalls : ScanHashed(c) \/ ScanSigned(c)

Timeline == \E propertyID \in PropertyIDs : TimelineClick(propertyID)

Onload == reading > 0 /\ \E text \in Files : ReaderOnload(text)

\* The events that read or change the ledger and its validation: every
\* handler of the page but the timeline search.
Next ==
  \/ Tick
  \/ Register
  \/ Transfer
  \/ Validate
  \/ AddDigestDone
  \/ ScanDigestDone
  \/ DownloadClick
  \/ UploadChange
  \/ Onload

Spec == Init /\ [][Next]_vars

\* Every event of the page.
NextPage == Next \/ Timeline

SpecPage == Init /\ [][NextPage]_vars

\* The ledger changed only through the click handlers: no export, no import.
NextClicks ==
  \/ Tick \/ Register \/ Transfer \/ Validate \/ Timeline
  \/ AddDigestDone \/ ScanDigestDone

SpecClicks == Init /\ [][NextClicks]_vars

\* As NextClicks, with a user who clicks Register or Transfer only when no
\* addBlock call is in flight: the appends are sequential.
NextSequential ==
  \/ Tick
  \/ AddCalls = {} /\ Register
  \/ AddCalls = {} /\ Transfer
  \/ Validate
  \/ Timeline
  \/ AddDigestDone
  \/ ScanDigestDone

SpecSequential == Init /\ [][NextSequential]_vars

\* As NextSequential, with the export and the import of the ledger.
NextSequentialFiles ==
  NextSequential \/ DownloadClick \/ UploadChange \/ Onload

SpecSequentialFiles == Init /\ [][NextSequentialFiles]_vars

\* The register and transfer clicks and the addBlock calls they start, with
\* every pending crypto.subtle.digest promise of an addBlock call resolving
\* in the end (the digest of a short message always completes, and no
\* handler of the page blocks the event loop).
NextAppends == Tick \/ Register \/ Transfer \/ AddDigestDone

SpecAppendsFair == Init /\ [][NextAppends]_vars /\ WF_vars(AddDigestDone)


\* ------------------------------------------------------------------ claims

Positions == 1..Len(blockchain)

Least(S) == CHOOSE n \in S : \A m \in S : n <= m

\* The validateChain call that ended in the latest step, on a chain that did
\* not change while it scanned.
Scanned == returned.op = "validateChain" /\ returned.stable

\* C1 (chain linkage): in a ledger changed only by addBlock calls, the first
\* block's previousHash is "0" and every later block's previousHash is the
\* currentHash of the block before it.
C1_ChainLinkage ==
  \A i \in Positions :
    IF i = 1 THEN Holds(blockchain[1], "previousHash", "0")
    ELSE ~LinkFails(blockchain[i], blockchain[i - 1])

\* C2 (validator soundness): a validateChain(s) call run after all appends
\* have completed, on a chain built by addBlock calls that all used the
\* secret s, returns the Valid result.
C2_ValidatorSoundness ==
  (/\ Scanned
   /\ AddCalls = {}
   /\ blockchain # <<>>
   /\ \A i \in Positions : authors[i] = returned.globalSecret)
    => returned.result = ResultValid

\* C3 (single in-flight append): never are two addBlock calls in flight at
\* once, each between its read of the tail and its push.
C3_SingleInFlightAppend == InFlight(AddCalls) <= 1

\* C6 (signature mismatch): on a chain built by sequential addBlock calls,
\* validateChain(s) returns the signature-invalid result at the lowest
\* position whose block was appended with a secret other than s.
C6_SignatureMismatchAtFirst ==
  LET others == {i \in Positions : authors[i] # returned.globalSecret}
  IN  (Scanned /\ others # {})
        => returned.result = ResultSignatureInvalid(Least(others))

\* C6's case: the second block was appended with another secret than the
\* first, and the scan with the first block's secret has returned.
C6_Witness ==
  /\ Scanned
  /\ Len(blockchain) = 2
  /\ authors[1] = returned.globalSecret
  /\ authors[2] # returned.globalSecret
  /\ returned.result = ResultSignatureInvalid(2)

\* Every check of validateChain passes at every position of `chain` under
\* the secret s: the chain validates as Valid.
Passes(chain, s) ==
  \A i \in 1..Len(chain) :
    /\ ~IsNull(chain[i])
    /\ ~HashFails(chain[i])
    /\ i > 1 => ~LinkFails(chain[i], chain[i - 1])
    /\ ~SignatureFails(chain[i], s)

\* The values a property of block k may have held before it was changed.
Before(k, s) ==
  {"", "0", "X", "Register", "Transfer", "Mallory"}
    \cup PropertyIDs \cup Owners \cup NewOwners
    \cup {toISOString(t) : t \in 0..MaxClock}
    \cup {calculateHash(blockchain[k]), signRecord(blockchain[k], s)}
    \cup (IF k > 1 /\ "currentHash" \in DOMAIN blockchain[k - 1]
          THEN {blockchain[k - 1].currentHash} ELSE {})

\* The blocks from which block k comes by a change of the stored value of
\* its property f alone (to another value, or by deleting or adding it), such
\* that the chain with that block at k validates as Valid under s.
Originals(k, f, s) ==
  IF \E i \in Positions \ {k} :
       HashFails(blockchain[i]) \/ SignatureFails(blockchain[i], s)
  THEN {}
  ELSE {b \in {(f :> v) @@ blockchain[k] : v \in Before(k, s)}
                \cup {Without(blockchain[k], f)} :
          /\ b # blockchain[k]
          /\ Passes([blockchain EXCEPT ![k] = b], s)}

Blocks == {k \in Positions : ~IsNull(blockchain[k])}

\* C4 as stated (hash tamper): after a change of any one property of block k
\* of a chain that validated as Valid under s, validateChain(s) returns the
\* hash-mismatch result for block k.
C4_AnyFieldGivesHashMismatch ==
  Scanned =>
    \A k \in Blocks, f \in Fields :
      Originals(k, f, returned.globalSecret) # {}
        => returned.result = ResultHashMismatch(k)

\* C4 as amended: the result is the hash mismatch at k when the property is
\* one the hash covers or currentHash itself, except that description and
\* remarks count by their value after the empty-string default (a change
\* between missing and "" leaves the chain Valid); a change of the signature
\* gives the signature-invalid result at k.
C4_HashedFieldGivesHashMismatch ==
  Scanned =>
    \A k \in Blocks, f \in Fields :
      \A b \in Originals(k, f, returned.globalSecret) :
        returned.result =
          IF f = "signature" THEN ResultSignatureInvalid(k)
          ELSE IF f \in {"description", "remarks"}
                    /\ OrEmpty(b, f) = OrEmpty(blockchain[k], f)
               THEN ResultValid
          ELSE ResultHashMismatch(k)

\* C4's case: the owner of the second block was changed after the chain
\* validated, and the scan has returned.
C4_Witness ==
  /\ Scanned
  /\ Len(blockchain) = 2
  /\ ~IsNull(blockchain[2])
  /\ Originals(2, "owner", returned.globalSecret) # {}
  /\ returned.result = ResultHashMismatch(2)

\* Block k with its previousHash set back to the currentHash of the block
\* before it and its currentHash recomputed.
Rejoined(k) ==
  LET back == IF "currentHash" \in DOMAIN blockchain[k - 1]
              THEN ("previousHash" :> blockchain[k - 1].currentHash)
                     @@ blockchain[k]
              ELSE Without(blockchain[k], "previousHash")
  IN  ("currentHash" :> calculateHash(back)) @@ back

\* Block k > 1 is a link tamper of a chain Valid under s: its previousHash
\* differs from the currentHash before it, its own hash is consistent, and
\* the chain with the link set back validates as Valid.
LinkTampered(k, s) ==
  /\ k > 1
  /\ ~IsNull(blockchain[k]) /\ ~IsNull(blockchain[k - 1])
  /\ ~StrictEq(blockchain[k], "previousHash", blockchain[k - 1], "currentHash")
  /\ Holds(blockchain[k], "currentHash", calculateHash(blockchain[k]))
  /\ Passes([blockchain EXCEPT ![k] = Rejoined(k)], s)

\* C5 (link tamper): after block k's previousHash (k > 1) was replaced by a
\* value other than the currentHash of block k-1 and its currentHash
\* recomputed, in a chain that validated as Valid under s, validateChain(s)
\* returns the broken-link result for block k.
C5_LinkTamperGivesBrokenLink ==
  Scanned =>
    \A k \in Positions :
      LinkTampered(k, returned.globalSecret)
        => returned.result = ResultBrokenLink(k)

\* C5's case: the second block was relinked and the scan has returned.
C5_Witness ==
  /\ Scanned
  /\ Len(blockchain) = 2
  /\ LinkTampered(2, returned.globalSecret)
  /\ returned.result = ResultBrokenLink(2)

\* The checks that fail at position i of `chain` under the secret s.
FailsAt(chain, i, s) ==
  \/ HashFails(chain[i])
  \/ i > 1 /\ LinkFails(chain[i], chain[i - 1])
  \/ SignatureFails(chain[i], s)

\* The result C7 states for a chain: Empty for no block; else the violation
\* at the lowest position where a check fails, of the first kind that fails
\* there in the order hash, link, signature; Valid when no check fails.
Stated(chain, s) ==
  LET failing == {i \in 1..Len(chain) : FailsAt(chain, i, s)}
      i == Least(failing)
  IN  IF chain = <<>> THEN ResultEmpty
      ELSE IF failing = {} THEN ResultValid
      ELSE IF HashFails(chain[i]) THEN ResultHashMismatch(i)
      ELSE IF i > 1 /\ LinkFails(chain[i], chain[i - 1]) THEN ResultBrokenLink(i)
      ELSE ResultSignatureInvalid(i)

\* C7 (the result as a function of the chain): on a chain that does not
\* change during the scan, validateChain returns Empty, the first violation
\* in position and priority order, or Valid, as Stated gives it.
C7_ResultIsFirstViolation ==
  Scanned => returned.result = Stated(blockchain, returned.globalSecret)

\* C7 holds of the chains that hold no null element.
ScanOfBlocksIsFirstViolation ==
  (Scanned /\ ~HasNull(blockchain))
    => returned.result = Stated(blockchain, returned.globalSecret)

\* The step is reader.onload (the only step that takes a pending read).
Loads == reading' = reading - 1

\* reader.onload ended in the latest step.
Loaded == loadReport.said # "none"

\* C8 (import rejects non-array): a load of a text that is not JSON, or
\* whose JSON value is not an array, alerts the error (the read error, the
\* expected-an-array error) and leaves the chain and the statistics shown as
\* they were.
C8_ImportRejectsNonArray ==
  [][(Loads /\ loadReport'.text.kind # "array")
       => /\ loadReport'.said =
               IF loadReport'.text.kind = "invalid" THEN AlertReadError
               ELSE AlertNotArray
          /\ blockchain' = blockchain
          /\ stats' = stats]_vars

\* C8's case: a JSON object was rejected while the chain held blocks.
C8_Witness ==
  /\ loadReport.said = AlertNotArray
  /\ loadReport.text.kind = "object"
  /\ blockchain # <<>>
  /\ stats = updateStats(blockchain)

\* C9 (no partial mutation on import failure): a load that alerts through
\* either error path leaves the chain as it was before the load.
C9_FailedImportKeepsChain ==
  [][(Loads /\ loadReport'.said \in {AlertNotArray, AlertReadError})
       => blockchain' = blockchain]_vars

\* C10 (import installs wholesale without validation): a load of an array of
\* blocks reports success and makes the chain that array, whatever the
\* checks of validateChain would say of it, and returns no validation
\* result.
C10_ImportInstallsWholesale ==
  (Loaded /\ loadReport.text.kind = "array" /\ ~HasNull(loadReport.text.items))
    => /\ loadReport.said = ResultLoaded
       /\ blockchain = loadReport.text.items
       /\ returned = NoReturn

\* C10's case: the array loaded holds a block whose hash check fails and
\* differs from the chain built before.
C10_Witness ==
  /\ loadReport.said = ResultLoaded
  /\ Len(blockchain) = 2
  /\ HashFails(blockchain[2])
  /\ \A s \in Secrets : ~Passes(blockchain, s)

\* C12 (append-only): in a run without import every step leaves the chain
\* as it is or extends it by one block at the tail, so a block keeps its
\* position and its values in every later state.
C12_AppendOnly ==
  [][\/ blockchain' = blockchain
     \/ /\ Len(blockchain') = Len(blockchain) + 1
        /\ SubSeq(blockchain', 1, Len(blockchain)) = blockchain]_vars

\* C12's case: a validateChain scan has returned on a chain of two blocks
\* that two appends built.
C12_Witness ==
  /\ returned.op = "validateChain"
  /\ Len(blockchain) = 2
  /\ Holds(blockchain[2], "action", "Transfer")

\* The positions of the Register blocks for the property id.
Registers(id) ==
  {i \in Positions : /\ Holds(blockchain[i], "action", "Register")
                     /\ Holds(blockchain[i], "propertyID", id)}

\* C13 (registration uniqueness): with the ledger changed only through the
\* register and transfer handlers, the chain holds at most one Register
\* block per propertyID.
C13_RegistrationUnique ==
  \A id \in PropertyIDs : Cardinality(Registers(id)) <= 1

\* The instant an ISO string written by toISOString stands for.
Instant(isoString) == CHOOSE t \in 0..MaxClock : toISOString(t) = isoString

\* C14 (timestamp order): in a chain built by addBlock calls alone the
\* timestamps do not decrease along the chain.
C14_TimestampOrder ==
  \A i \in Positions :
    i > 1 => Instant(blockchain[i - 1].timestamp) <= Instant(blockchain[i].timestamp)

\* C19 (transfer only of known properties): with the ledger changed only
\* through the register and transfer handlers, every Transfer block has a
\* Register block for its propertyID before it in the chain, and every
\* addBlock call a transfer click started is for a property the chain
\* holds a Register block of.
C19_TransferOfKnownProperty ==
  /\ \A i \in Positions :
       Holds(blockchain[i], "action", "Transfer")
         => \E j \in Registers(blockchain[i].propertyID) : j < i
  /\ \A c \in AddCalls :
       c.record.action = "Transfer" => Registers(c.record.propertyID) # {}

\* C19's case: a Transfer block stands in the chain after the Register block
\* of its property.
C19_Witness ==
  /\ Len(blockchain) = 2
  /\ Holds(blockchain[1], "action", "Register")
  /\ Holds(blockchain[2], "action", "Transfer")
  /\ blockchain[2].propertyID = blockchain[1].propertyID

\* A step in which the addBlock call c pushes its own block and ends.
PushOf(c) ==
  /\ c.pc = "hash"
  /\ Len(blockchain') = Len(blockchain) + 1
  /\ SubSeq(blockchain', 1, Len(blockchain)) = blockchain
  /\ \A k \in DOMAIN c.record : Holds(blockchain'[Len(blockchain')], k, c.record[k])
  /\ InFlight(AddCalls)' = InFlight(AddCalls) - 1

\* C17 (append completes exactly once): in a run without import a step
\* starts one call and leaves the chain alone, or pushes the block of one
\* call in flight and ends that call, or changes neither the chain nor the
\* number of calls in flight; and, the digests being fair, the calls in
\* flight at any moment have all ended at some later moment (so that the
\* chain is then as long as the number of calls started).
C17_AppendCompletesOnce ==
  /\ [][\/ /\ InFlight(AddCalls)' = InFlight(AddCalls) + 1
           /\ blockchain' = blockchain
        \/ \E c \in AddCalls : PushOf(c)
        \/ /\ InFlight(AddCalls)' = InFlight(AddCalls)
           /\ blockchain' = blockchain]_vars
  /\ (AddCalls # {}) ~> (AddCalls = {})

\* C17's case: two calls that overlapped (both read the empty chain) have
\* both pushed and none is in flight.
C17_Witness ==
  /\ Len(blockchain) = 2
  /\ AddCalls = {}
  /\ blockchain[1].previousHash = "0"
  /\ blockchain[2].previousHash = "0"
  /\ blockchain[1] # blockchain[2]

\* The statistics C15 states for a chain: the distinct propertyIDs of its
\* Register blocks, its Transfer blocks, the distinct owner values of its
\* blocks.
Projection(chain) ==
  LET at == {i \in 1..Len(chain) : ~IsNull(chain[i])}
      registered == {Interpolate(chain[i], "propertyID") :
                       i \in {j \in at : Holds(chain[j], "action", "Register")}}
      transfers == {i \in at : Holds(chain[i], "action", "Transfer")}
      owners == {Interpolate(chain[i], "owner") : i \in at}
  IN  [properties |-> Cardinality(registered),
       transfers |-> Cardinality(transfers),
       owners |-> Cardinality(owners)]

\* C15 (statistics never stale): between the steps of the handlers the
\* statistics shown are the projection of the chain in memory.
C15_StatsAreProjection == stats = Projection(blockchain)

\* C15 holds while the chain holds no null element.
StatsOfBlocksAreProjection ==
  ~HasNull(blockchain) => stats = Projection(blockchain)

\* The step is a push of addBlock onto a chain that a load installed and
\* that no addBlock call has pushed to since.
PushesOntoLoaded ==
  /\ imports > 0 /\ reading = 0
  /\ \A i \in 1..Len(authors) : authors[i] = Unknown
  /\ Len(authors') = Len(authors) + 1
  /\ authors'[Len(authors')] # Unknown

\* C20 (link at push time across import): the block addBlock pushes has, in
\* the chain it is pushed to, the currentHash of the block before it as its
\* previousHash, or "0" at position 0, also after a load replaced the chain.
C20_LinkAtPushAcrossImport ==
  [][PushesOntoLoaded =>
       LET n == Len(blockchain')
       IN  IF n = 1 THEN Holds(blockchain'[1], "previousHash", "0")
           ELSE /\ ~IsNull(blockchain'[n - 1])
                /\ StrictEq(blockchain'[n], "previousHash",
                            blockchain'[n - 1], "currentHash")]_vars

\* C11 (round-trip): when the text downloadLedger writes for a chain built
\* by appends is loaded, the load reports success and the chain is the same
\* sequence of blocks with the same properties as before, and so validates
\* alike under every secret.
C11_RoundTrip ==
  [][(/\ Loads
      /\ blockchain # <<>>
      /\ \A i \in 1..Len(authors) : authors[i] # Unknown
      /\ loadReport'.text = JSONparse(downloadLedger(blockchain)))
       => /\ loadReport'.said = ResultLoaded
          /\ blockchain' = blockchain
          /\ \A s \in Secrets : Stated(blockchain', s) = Stated(blockchain, s)]_vars

\* C11's case: the export of a chain of a Register and a Transfer block
\* (one with an empty description, one with empty remarks) has been loaded.
C11_Witness ==
  /\ loadReport.said = ResultLoaded
  /\ Len(blockchain) = 2
  /\ loadReport.text = JSONparse(downloadLedger(blockchain))
  /\ \A i \in 1..Len(authors) : authors[i] = Unknown
  /\ Holds(blockchain[1], "description", "")
  /\ Holds(blockchain[2], "remarks", "")
  /\ \E s \in Secrets : Passes(blockchain, s)

\* The positions of the blocks of `chain` whose propertyID is id.
Carrying(chain, id) ==
  {i \in 1..Len(chain) : ~IsNull(chain[i]) /\ Holds(chain[i], "propertyID", id)}

\* The n-th smallest element of a set of numbers.
Nth(S, n) == CHOOSE x \in S : Cardinality({y \in S : y <= x}) = n

\* The timeline C16 states for id: one item for each block of the chain
\* whose propertyID is id, in the order of the chain; the 'No actions found'
\* entry when no block carries id.
StatedTimeline(chain, id) ==
  LET at == Carrying(chain, id)
  IN  IF at = {} THEN <<NoActionsFound>>
      ELSE [idx \in 1..Cardinality(at) |-> TimelineItem(chain[Nth(at, idx)], idx)]

\* showTimeline ended in the latest step.
TimelineShown == returned.op = "showTimeline"

\* C16 (timeline filter): the timeline shown for id holds exactly the blocks
\* of the chain whose propertyID is id, each once and in chain order, and is
\* the 'No actions found' entry when there is none.
C16_TimelineFilter ==
  TimelineShown =>
    returned.timeline = StatedTimeline(blockchain, returned.propertyID)

\* C16 holds of the chains that hold no null element.
TimelineOfBlocksIsFilter ==
  (TimelineShown /\ ~HasNull(blockchain))
    => returned.timeline = StatedTimeline(blockchain, returned.propertyID)

\* A scan of a chain that nothing changed gives ValidationOf that chain.
StableScanIsValidation ==
  Scanned => returned.result = ValidationOf(blockchain, returned.globalSecret)

\* C18 (validation sees one consistent chain): the result a validateChain
\* call returns is the result of validating one of the contents the chain
\* had between the start of the scan and its return.
C18_ResultOfOneSnapshot ==
  returned.op = "validateChain" =>
    returned.result \in
      returned.seen \cup {ValidationOf(blockchain, returned.globalSecret)}

=============================================================================
